---- MODULE Spec2Model ----
(***************************************************************************)
(* Tacotron2Trainer (tensorflow_tts/examples/train_tacotron2.py).          *)
(*                                                                         *)
(* Tensors are nested sequences (1-based; position t of the code is index  *)
(* t+1).  Floating-point values are exact rationals [k, n, d] in lowest    *)
(* terms, plus the two IEEE results of a division by zero (NaN for 0/0,    *)
(* Inf for x/0).  A Python dict is a function whose DOMAIN is its key set; *)
(* subscripting an absent key raises KeyError.                             *)
(***************************************************************************)
EXTENDS Integers, Sequences, FiniteSets, TLC

\* ---------------------------------------------------------------- bounds
MaxBatch == 2
MaxMelLen == 5
MaxEncLen == 2
MelBins == 1
StopLogit == 10

\* ------------------------------------------------------------ arithmetic
RECURSIVE GCD(_, _)
GCD(a, b) == IF b = 0 THEN a ELSE GCD(b, a % b)

Abs(x) == IF x < 0 THEN -x ELSE x

Max(a, b) == IF a >= b THEN a ELSE b

NaN == [k |-> "nan", n |-> 0, d |-> 0]

Inf == [k |-> "inf", n |-> 1, d |-> 0]

\* float division of two non-negative integer-valued floats (tf "/")
TrueDiv(num, den) ==
    IF den = 0
    THEN (IF num = 0 THEN NaN ELSE Inf)
    ELSE LET g == GCD(num, den)
         IN  [k |-> "fin", n |-> num \div g, d |-> den \div g]

IsFinite(x) == x.k = "fin"

\* float addition of two non-negative values (tf "+")
FAdd(x, y) ==
    IF x.k = "nan" \/ y.k = "nan" THEN NaN
    ELSE IF x.k = "inf" \/ y.k = "inf" THEN Inf
    ELSE TrueDiv(x.n * y.d + y.n * x.d, x.d * y.d)

RECURSIVE SumFirst(_, _)
SumFirst(s, n) == IF n = 0 THEN 0 ELSE s[n] + SumFirst(s, n - 1)

SumSeq(s) == SumFirst(s, Len(s))

RECURSIVE MaxFirst(_, _)
MaxFirst(s, n) == IF n = 1 THEN s[1] ELSE Max(s[n], MaxFirst(s, n - 1))

MaxSeq(s) == MaxFirst(s, Len(s))

\* tf.reduce_sum(x, axis=[1, 2])[i] of a [B, R, C] tensor
ReduceSum12(x, i) == SumSeq([r \in 1..Len(x[i]) |-> SumSeq(x[i][r])])

Shape2(x) == <<Len(x), Len(x[1])>>

Shape3(x) == <<Len(x), Len(x[1]), Len(x[1][1])>>

\* ------------------------------------------------- Tacotron2Trainer.__init__
list_metrics_name ==
    <<"stop_token_loss", "mel_loss_before", "mel_loss_after", "guided_attention_loss">>

RequiredKeys == {"mel_gts", "mel_lengths", "g_attentions"}

\* ---------------------------------------------------- external collaborators
\* keras MeanAbsoluteError(reduction=NONE) followed by the helper's mean over
\* the remaining non-batch axis: the mean of |gt - pred| over [T, MelBins].
calculate_3d_loss(y_gt, y_pred) ==
    IF Shape3(y_gt) # Shape3(y_pred)
    THEN [raised |-> "ShapeMismatchError", value |-> <<>>]
    ELSE [raised |-> "None",
          value |-> [i \in 1..Len(y_gt) |->
              TrueDiv(SumSeq([t \in 1..Len(y_gt[i]) |->
                                SumSeq([m \in 1..Len(y_gt[i][t]) |->
                                          Abs(y_gt[i][t][m] - y_pred[i][t][m])])]),
                      Len(y_gt[i]) * Len(y_gt[i][1]))]]

\* keras BinaryCrossentropy(from_logits=True) on one element, for logits of
\* magnitude StopLogit: max(z, 0) - z*y (the softplus term log(1 + exp(-|z|))
\* is below the resolution of the integer scale).
binary_crossentropy(y, z) == Max(z, 0) - z * y

calculate_2d_loss(y_gt, y_pred) ==
    IF Shape2(y_gt) # Shape2(y_pred)
    THEN [raised |-> "ShapeMismatchError", value |-> <<>>]
    ELSE [raised |-> "None",
          value |-> [i \in 1..Len(y_gt) |->
              TrueDiv(SumSeq([t \in 1..Len(y_gt[i]) |->
                                binary_crossentropy(y_gt[i][t], y_pred[i][t])]),
                      Len(y_gt[i]))]]

\* ------------------------------------------- compute_per_example_losses
\* max_mel_length, then tf.reduce_max over it (lines 170-176)
max_mel_length(mel_lengths, config) ==
    IF config["use_fixed_shapes"] = FALSE
    THEN MaxSeq(mel_lengths)
    ELSE MaxSeq(<<config["max_mel_length"]>>)

\* variant: tf.math.greater in place of tf.math.greater_equal
stop_gts_strictly_greater(mel_lengths, config) ==
    [i \in 1..Len(mel_lengths) |->
        [p \in 1..max_mel_length(mel_lengths, config) |->
            IF (p - 1) > mel_lengths[i] THEN 1 ELSE 0]]

\* range -> expand_dims -> tile -> greater_equal -> cast (lines 175-184)
stop_gts(mel_lengths, config) ==
    [i \in 1..Len(mel_lengths) |->
        [p \in 1..max_mel_length(mel_lengths, config) |->
            IF (p - 1) >= mel_lengths[i] THEN 1 ELSE 0]]

\* variant: no position is masked out
attention_masks_all_ones(g_attentions) ==
    [i \in 1..Len(g_attentions) |->
        [r \in 1..Len(g_attentions[i]) |->
            [c \in 1..Len(g_attentions[i][r]) |-> 1]]]

\* tf.cast(tf.math.not_equal(g_attentions, -1.0), tf.float32) (lines 191-193)
attention_masks(g_attentions) ==
    [i \in 1..Len(g_attentions) |->
        [r \in 1..Len(g_attentions[i]) |->
            [c \in 1..Len(g_attentions[i][r]) |->
                IF g_attentions[i][r][c] # -1 THEN 1 ELSE 0]]]

\* broadcasting rule of the elementwise "*": per axis equal, or one of them 1
BroadcastDim(a, b) == IF a = b THEN a ELSE IF a = 1 THEN b ELSE IF b = 1 THEN a ELSE 0

BroadcastShape(s, t) == [ax \in 1..3 |-> BroadcastDim(s[ax], t[ax])]

Compatible(s, t) == \A ax \in 1..3 : BroadcastShape(s, t)[ax] # 0

\* element (i, r, c) of x, of shape s, seen through a broadcast
At(x, s, i, r, c) ==
    x[IF s[1] = 1 THEN 1 ELSE i][IF s[2] = 1 THEN 1 ELSE r][IF s[3] = 1 THEN 1 ELSE c]

\* tf.abs(alignment_historys * g_attentions) * attention_masks (line 195)
masked_abs_product(alignment_historys, g_attentions) ==
    LET sa == Shape3(alignment_historys)
        sg == Shape3(g_attentions)
        s == BroadcastShape(sa, sg)
        m == attention_masks(g_attentions)
    IN  [i \in 1..s[1] |-> [r \in 1..s[2] |-> [c \in 1..s[3] |->
            Abs(At(alignment_historys, sa, i, r, c) * At(g_attentions, sg, i, r, c))
                * At(m, sg, i, r, c)]]]

\* loss_att = reduce_sum(..., [1, 2]); loss_att /= reduce_sum(masks, [1, 2])
\* (lines 194-198)
loss_att(alignment_historys, g_attentions) ==
    LET prod == masked_abs_product(alignment_historys, g_attentions)
        m == attention_masks(g_attentions)
    IN  [i \in 1..Len(prod) |->
            TrueDiv(ReduceSum12(prod, i),
                    ReduceSum12(m, IF Len(m) = 1 THEN 1 ELSE i))]

\* variant: the attention term left out of the total
per_example_losses_drop_att(stop, before, after, att) ==
    [i \in 1..Len(stop) |-> FAdd(FAdd(stop[i], before[i]), after[i])]

\* stop_token_loss + mel_loss_before + mel_loss_after + loss_att (lines 200-202)
per_example_losses(stop, before, after, att) ==
    [i \in 1..Len(stop) |-> FAdd(FAdd(FAdd(stop[i], before[i]), after[i]), att[i])]

EmptyDict == [name \in {} |-> <<>>]

Raise(exc) ==
    [status |-> "raised", exc |-> exc,
     per_example_losses |-> <<>>, dict_metrics_losses |-> EmptyDict]

NotCalled ==
    [status |-> "pending", exc |-> "None",
     per_example_losses |-> <<>>, dict_metrics_losses |-> EmptyDict]

\* the whole method: each statement in the code's order, the first exception
\* ending the call
compute_per_example_losses(batch, outputs, config) ==
    LET decoder_output == outputs[1]
        post_mel_outputs == outputs[2]
        stop_token_predictions == outputs[3]
        alignment_historys == outputs[4]
    IN
    IF "mel_gts" \notin DOMAIN batch THEN Raise("KeyError") ELSE
    LET mel_loss_before == calculate_3d_loss(batch["mel_gts"], decoder_output) IN
    IF mel_loss_before.raised # "None" THEN Raise(mel_loss_before.raised) ELSE
    LET mel_loss_after == calculate_3d_loss(batch["mel_gts"], post_mel_outputs) IN
    IF mel_loss_after.raised # "None" THEN Raise(mel_loss_after.raised) ELSE
    IF "mel_lengths" \notin DOMAIN batch THEN Raise("KeyError") ELSE
    LET stop_token_loss ==
            calculate_2d_loss(stop_gts(batch["mel_lengths"], config),
                              stop_token_predictions) IN
    IF stop_token_loss.raised # "None" THEN Raise(stop_token_loss.raised) ELSE
    IF "g_attentions" \notin DOMAIN batch THEN Raise("KeyError") ELSE
    IF ~Compatible(Shape3(alignment_historys), Shape3(batch["g_attentions"]))
    THEN Raise("InvalidArgumentError") ELSE
    LET att == loss_att(alignment_historys, batch["g_attentions"]) IN
    IF Len(att) # Len(stop_token_loss.value) THEN Raise("InvalidArgumentError") ELSE
    [status |-> "returned", exc |-> "None",
     per_example_losses |->
        per_example_losses(stop_token_loss.value, mel_loss_before.value,
                           mel_loss_after.value, att),
     dict_metrics_losses |->
        [stop_token_loss |-> stop_token_loss.value,
         mel_loss_before |-> mel_loss_before.value,
         mel_loss_after |-> mel_loss_after.value,
         guided_attention_loss |-> att]]

\* ------------------------------------------------------------------ state
VARIABLES
    shard,          \* replica -> [batch, outputs]: what each replica is handed
    distributed,    \* whether the strategy hands out PerReplica collections
    config,
    steps,
    epochs,
    already_apply_input_signature,
    wrapped,        \* how often each step function has been wrapped by tf.function
    train_metrics,
    eval_metrics,
    result,         \* replica -> what its last compute_per_example_losses call gave
    dirs,           \* directories that exist under config.outdir
    files,          \* files that exist
    written,        \* the files the last generate_and_save_intermediate_result saved
    raised,         \* the exception that ended the program, "None" while it runs
    lastCall,       \* the method that ran last
    forward_saw,    \* self.steps as the last one_step_forward found it
    check_saw,      \* self.steps as the last _check_train_finish found it
    steps0,         \* the steps argument of the constructor
    ncalls          \* completed _train_step calls

vars ==
    <<shard, distributed, config, steps, epochs, already_apply_input_signature,
      wrapped, train_metrics, eval_metrics, result, dirs, files, written, raised,
      lastCall, forward_saw, check_saw, steps0, ncalls>>

\* ----------------------------------------------------------------- inputs
NumReplicas == 2
MaxTrainSteps == 2
MaxInitSteps == 1
MaxEvalUpdates == 1

\* ground-truth mel frame: content on the first len frames, zero padding after
MelGt(i, t, m, len) == IF t <= len THEN 1 + ((i + t + m) % 2) ELSE 0

\* guided-attention prior of one example: distance from the diagonal on the
\* [elen, len] region of real characters and frames, the sentinel -1 elsewhere
Prior(r, c, elen, len) ==
    IF r <= elen /\ c <= len THEN Abs((r - 1) * len - (c - 1) * elen) ELSE -1

PaddedLen(lens, fixed) == IF fixed THEN MaxMelLen ELSE MaxSeq(lens)

MakeBatch(lens, elens, fixed, utt0) ==
    LET T == PaddedLen(lens, fixed)
        E == Max(1, MaxSeq(elens))
    IN  [mel_gts |-> [i \in 1..Len(lens) |-> [t \in 1..T |-> [m \in 1..MelBins |->
                        MelGt(i, t, m, lens[i])]]],
         mel_lengths |-> lens,
         g_attentions |-> [i \in 1..Len(lens) |-> [r \in 1..E |-> [c \in 1..T |->
                        Prior(r, c, elens[i], lens[i])]]],
         utt_ids |-> [i \in 1..Len(lens) |-> utt0 + i]]

\* the model's outputs for a batch: q = 0 reproduces the ground truth, q = 1
\* is off by q (before the postnet), 2q (after it) and stops q frames late;
\* shift moves the attention pattern by one encoder step
MakeOutputs(batch, q, shift) ==
    LET gts == batch["mel_gts"]
        lens == batch["mel_lengths"]
        g == batch["g_attentions"]
    IN  << [i \in 1..Len(gts) |-> [t \in 1..Len(gts[i]) |-> [m \in 1..MelBins |->
                gts[i][t][m] + q]]],
           [i \in 1..Len(gts) |-> [t \in 1..Len(gts[i]) |-> [m \in 1..MelBins |->
                gts[i][t][m] + 2 * q]]],
           [i \in 1..Len(gts) |-> [p \in 1..Len(gts[i]) |->
                IF (p - 1) >= lens[i] + q THEN StopLogit ELSE -StopLogit]],
           [i \in 1..Len(g) |-> [r \in 1..Len(g[i]) |-> [c \in 1..Len(g[i][r]) |->
                1 + ((r + c + shift) % 2)]]] >>

DropKeys(batch, K) == [key \in DOMAIN batch \ K |-> batch[key]]

\* one more frame / logit / decoder column than the target has
ExtraFrame3(x) == [i \in 1..Len(x) |-> Append(x[i], x[i][1])]

ExtraLogit(x) == [i \in 1..Len(x) |-> Append(x[i], StopLogit)]

ExtraColumn(x) == [i \in 1..Len(x) |-> [r \in 1..Len(x[i]) |-> Append(x[i][r], 1)]]

\* a single encoder row where the prior has several
OneRow(x) == [i \in 1..Len(x) |-> <<x[i][1]>>]

OutputDefects == {"decoder_frames", "postnet_frames", "stop_logits",
                  "alignment_columns", "alignment_rows"}

Defective(outputs, defect) ==
    CASE defect = "decoder_frames" -> [outputs EXCEPT ![1] = ExtraFrame3(@)]
      [] defect = "postnet_frames" -> [outputs EXCEPT ![2] = ExtraFrame3(@)]
      [] defect = "stop_logits" -> [outputs EXCEPT ![3] = ExtraLogit(@)]
      [] defect = "alignment_columns" -> [outputs EXCEPT ![4] = ExtraColumn(@)]
      [] defect = "alignment_rows" -> [outputs EXCEPT ![4] = OneRow(@)]

\* the mel lengths and the encoder (character) lengths of a batch's examples;
\* an encoder length of 0 leaves the whole prior at the sentinel
LengthPairs ==
    UNION {[1..b -> 1..MaxMelLen] \X [1..b -> 0..MaxEncLen] : b \in 1..MaxBatch}

MakeConfig(fixed) ==
    [use_fixed_shapes |-> fixed, max_mel_length |-> MaxMelLen, outdir |-> "outdir"]

MakeInput(lens, elens, fixed, q, shift, utt0) ==
    LET batch == MakeBatch(lens, elens, fixed, utt0)
    IN  [batch |-> batch, outputs |-> MakeOutputs(batch, q, shift), fixed |-> fixed]

\* the length pairs of the malformed inputs: every example with a full prior
FullPriorLengthPairs ==
    {le \in LengthPairs : \A i \in DOMAIN le[2] : le[2][i] = MaxEncLen}

\* what the replicas of the training run are handed
TrainerInputs(r) ==
    {MakeInput(le[1], le[2], FALSE, 1, 0, 10 * r) :
        le \in {<< <<2>>, <<1>> >>, << <<1, 2>>, <<2, 0>> >>}}

\* ----------------------------------------------------------------- metrics
Zero == [k |-> "fin", n |-> 0, d |-> 1]

RECURSIVE FSum(_)
FSum(v) == IF v = <<>> THEN Zero ELSE FAdd(Head(v), FSum(Tail(v)))

Range(s) == {s[x] : x \in DOMAIN s}

\* init_train_eval_metrics + reset_states_*: one Mean per metric name
init_metrics(names) == [name \in Range(names) |-> [total |-> Zero, count |-> 0]]

\* update_train_metrics / update_eval_metrics: Mean.update_state per name
update_metrics(metrics, dict) ==
    [name \in DOMAIN metrics |->
        IF name \in DOMAIN dict
        THEN [total |-> FAdd(metrics[name].total, FSum(dict[name])),
              count |-> metrics[name].count + Len(dict[name])]
        ELSE metrics[name]]

Replicas == DOMAIN shard

Losses(r) == compute_per_example_losses(shard[r].batch, shard[r].outputs, config)

RECURSIVE FoldReplicas(_, _)
FoldReplicas(metrics, r) ==
    IF r \notin Replicas THEN metrics
    ELSE FoldReplicas(update_metrics(metrics, Losses(r).dict_metrics_losses), r + 1)

\* ------------------------------------------------------------------- Init
TrainerStateInit ==
    /\ epochs = 0
    /\ already_apply_input_signature = FALSE
    /\ wrapped = [f \in {"one_step_forward", "one_step_evaluate", "one_step_predict"} |-> 0]
    /\ train_metrics = init_metrics(list_metrics_name)
    /\ eval_metrics = init_metrics(list_metrics_name)
    /\ result = [r \in DOMAIN shard |-> NotCalled]
    /\ dirs = {}
    /\ files = {}
    /\ written = {}
    /\ raised = "None"
    /\ lastCall = "__init__"
    /\ forward_saw = -1
    /\ check_saw = -1
    /\ ncalls = 0

Init ==
    /\ distributed \in BOOLEAN
    /\ shard \in IF distributed
                 THEN {f \in [1..NumReplicas -> UNION {TrainerInputs(r) : r \in 1..NumReplicas}] :
                          \A r \in 1..NumReplicas : f[r] \in TrainerInputs(r)}
                 ELSE {<<a>> : a \in TrainerInputs(1)}
    /\ config = MakeConfig(FALSE)
    /\ steps0 \in 0..MaxInitSteps
    /\ steps = steps0
    /\ TrainerStateInit

\* one call of compute_per_example_losses on one input: every well-formed
\* batch with the model's outputs for it, or a malformed one (required keys
\* removed from the batch, or one output of another shape than its target)
InitLoss ==
    /\ distributed = FALSE
    /\ \/ \E le \in LengthPairs, fixed \in BOOLEAN, v \in 0..1 :
             /\ shard = <<MakeInput(le[1], le[2], fixed, v, v, 0)>>
             /\ config = MakeConfig(fixed)
       \/ \E le \in FullPriorLengthPairs, K \in (SUBSET RequiredKeys) \ {{}} :
             /\ shard = <<[MakeInput(le[1], le[2], FALSE, 1, 0, 0)
                             EXCEPT !.batch = DropKeys(@, K)]>>
             /\ config = MakeConfig(FALSE)
       \/ \E le \in FullPriorLengthPairs, defect \in OutputDefects :
             /\ shard = <<[MakeInput(le[1], le[2], FALSE, 1, 0, 0)
                             EXCEPT !.outputs = Defective(@, defect)]>>
             /\ config = MakeConfig(FALSE)
    /\ steps0 = 0
    /\ steps = steps0
    /\ TrainerStateInit

\* ---------------------------------------------------------------- actions
Running == raised = "None"

\* variant: the call also folds its metrics into the eval accumulators
CallLossesAndUpdateEval(r) ==
    /\ Running
    /\ result' = [result EXCEPT ![r] = Losses(r)]
    /\ eval_metrics' = update_metrics(eval_metrics, Losses(r).dict_metrics_losses)
    /\ lastCall' = "compute_per_example_losses"
    /\ UNCHANGED <<shard, distributed, config, steps, epochs,
                   already_apply_input_signature, wrapped, train_metrics,
                   dirs, files, written, raised, forward_saw, check_saw, steps0, ncalls>>

\* compute_per_example_losses(batch, outputs) on replica r
CallComputePerExampleLosses(r) ==
    /\ Running
    /\ result' = [result EXCEPT ![r] = Losses(r)]
    /\ lastCall' = "compute_per_example_losses"
    /\ UNCHANGED <<shard, distributed, config, steps, epochs,
                   already_apply_input_signature, wrapped, train_metrics, eval_metrics,
                   dirs, files, written, raised, forward_saw, check_saw, steps0, ncalls>>

\* _one_step_evaluate_per_replica(batch) on replica r
OneStepEvaluatePerReplica(r) ==
    /\ Running
    /\ eval_metrics[list_metrics_name[1]].count < MaxEvalUpdates
    /\ LET got == Losses(r)
       IN  IF got.status = "raised"
           THEN /\ raised' = got.exc
                /\ UNCHANGED eval_metrics
           ELSE /\ eval_metrics' = update_metrics(eval_metrics, got.dict_metrics_losses)
                /\ UNCHANGED raised
    /\ lastCall' = "_one_step_evaluate_per_replica"
    /\ UNCHANGED <<shard, distributed, config, steps, epochs,
                   already_apply_input_signature, wrapped, train_metrics, result,
                   dirs, files, written, forward_saw, check_saw, steps0, ncalls>>

\* variant: the flag is not consulted
WrapEveryCall(flag, w) == [f \in DOMAIN w |-> w[f] + 1]

\* the tf.function wrapping of _train_step (lines 100-110)
WrapOnce(flag, w) == IF flag = FALSE THEN [f \in DOMAIN w |-> w[f] + 1] ELSE w

\* what _check_train_finish finds in self.steps: it runs after the increment
StepsAtCheck(s) == s + 1

\* _train_step(batch)
TrainStep ==
    /\ Running
    /\ ncalls < MaxTrainSteps
    /\ wrapped' = WrapOnce(already_apply_input_signature, wrapped)
    /\ already_apply_input_signature' = TRUE
    /\ forward_saw' = steps
    /\ train_metrics' = FoldReplicas(train_metrics, 1)
    /\ steps' = steps + 1
    /\ check_saw' = StepsAtCheck(steps)
    /\ ncalls' = ncalls + 1
    /\ lastCall' = "_train_step"
    /\ UNCHANGED <<shard, distributed, config, epochs, eval_metrics, result,
                   dirs, files, written, raised, steps0>>

\* ------------------------------------- generate_and_save_intermediate_result
\* what one_step_predict hands back: a PerReplica collection under a
\* distributed strategy, the plain tensors otherwise
PredictedBatch == IF distributed THEN [values |-> shard] ELSE shard[1]

\* variant: the last replica's values
sample_last_replica(obj) ==
    IF "values" \in DOMAIN obj THEN obj["values"][Len(obj["values"])] ELSE obj

\* try: x.values[0].numpy()  except Exception: x.numpy()  (lines 230-241)
sample_first_replica(obj) ==
    IF "values" \in DOMAIN obj THEN obj["values"][1] ELSE obj

Min(a, b) == IF a <= b THEN a ELSE b

\* the examples the loop visits: zip stops at the shortest (lines 248-250)
NumRendered(data) ==
    Min(Min(Len(data.batch["mel_gts"]), Len(data.outputs[1])),
        Min(Len(data.outputs[2]), Len(data.outputs[4])))

\* os.path.join(config["outdir"], f"predictions/{steps}steps") (line 244)
PredictionsDir(s) == [outdir |-> config["outdir"], sub |-> "predictions", steps |-> s]

\* the plt.savefig calls of the loop, in order: f"{utt_id}.png", then
\* f"{idx}_alignment.png", for idx = 0, 1, ... (lines 256-288)
Savefigs(data, dirname) ==
    [j \in 1..(2 * NumRendered(data)) |->
        IF j % 2 = 1
        THEN [dir |-> dirname, stem |-> data.batch["utt_ids"][(j + 1) \div 2],
              suffix |-> ".png"]
        ELSE [dir |-> dirname, stem |-> (j \div 2) - 1, suffix |-> "_alignment.png"]]

RenderFailures == {"none", "ImportError", "makedirs", "savefig"}

\* generate_and_save_intermediate_result(batch); failure is what the
\* environment does to this call: the import of the plotting backend fails,
\* os.makedirs fails, or the k-th plt.savefig fails
GenerateAndSaveIntermediateResult(failure) ==
    /\ Running
    /\ LET data == sample_first_replica(PredictedBatch)
           dirname == PredictionsDir(steps)
           saves == Savefigs(data, dirname)
       IN  CASE failure = "ImportError" ->
                  /\ raised' = "ImportError"
                  /\ written' = {}
                  /\ UNCHANGED <<dirs, files>>
             [] failure = "makedirs" ->
                  /\ dirname \notin dirs
                  /\ raised' = "OSError"
                  /\ written' = {}
                  /\ UNCHANGED <<dirs, files>>
             [] failure = "savefig" ->
                  \E k \in 1..Len(saves) :
                      /\ raised' = "OSError"
                      /\ dirs' = dirs \cup {dirname}
                      /\ written' = {saves[j] : j \in 1..(k - 1)}
                      /\ files' = files \cup written'
             [] failure = "none" ->
                  /\ dirs' = dirs \cup {dirname}
                  /\ written' = Range(saves)
                  /\ files' = files \cup written'
                  /\ UNCHANGED raised
    /\ lastCall' = "generate_and_save_intermediate_result"
    /\ UNCHANGED <<shard, distributed, config, steps, epochs,
                   already_apply_input_signature, wrapped, train_metrics, eval_metrics,
                   result, forward_saw, check_saw, steps0, ncalls>>

\* ------------------------------------------------------------------- Next
Next ==
    \/ TrainStep
    \/ \E r \in Replicas : OneStepEvaluatePerReplica(r)
    \/ \E r \in Replicas : CallComputePerExampleLosses(r)
    \/ \E failure \in RenderFailures : GenerateAndSaveIntermediateResult(failure)

Spec == Init /\ [][Next]_vars

\* the one call of the loss specification
NextLoss ==
    \E r \in Replicas : result[r].status = "pending" /\ CallComputePerExampleLosses(r)

SpecLoss == InitLoss /\ [][NextLoss]_vars

\* ================================================================= claims
RECURSIVE SumOver(_, _)
SumOver(S, f) ==
    IF S = {} THEN 0
    ELSE LET x == CHOOSE y \in S : TRUE IN f[x] + SumOver(S \ {x}, f)

Returned(r) == result[r].status = "returned"

BatchSize(r) == Len(shard[r].batch["utt_ids"])

\* C1: a returned per_example_losses has one entry per example of the batch,
\* the metrics mapping has exactly the four names of list_metrics_name, each
\* with one entry per example, and per_example_losses[i] is the unweighted sum
\* of the four metric values at i.
C1_LossIsSumOfNamedMetrics ==
    \A r \in Replicas : Returned(r) =>
        LET p == result[r].per_example_losses
            d == result[r].dict_metrics_losses
        IN  /\ Len(p) = BatchSize(r)
            /\ DOMAIN d = {"stop_token_loss", "mel_loss_before", "mel_loss_after",
                           "guided_attention_loss"}
            /\ \A name \in DOMAIN d : Len(d[name]) = BatchSize(r)
            /\ \A i \in 1..BatchSize(r) :
                  p[i] = FSum([j \in 1..4 |-> d[list_metrics_name[j]][i]])

C1_Witness ==
    \E r \in Replicas :
        /\ Returned(r)
        /\ BatchSize(r) = 2
        /\ \A name \in DOMAIN result[r].dict_metrics_losses :
              /\ IsFinite(result[r].dict_metrics_losses[name][2])
              /\ result[r].dict_metrics_losses[name][2].n > 0
        /\ result[r].per_example_losses[2] # result[r].per_example_losses[1]

\* C2: the stop-token ground truth of a call is a [B, T] matrix whose entry
\* (i, t), t counted from 0, is 1 exactly when t >= mel_lengths[i] and 0
\* otherwise, T being the largest mel length of the batch when use_fixed_shapes
\* is False and the configured max_mel_length otherwise.
C2_StopTokenGroundTruth ==
    \A r \in Replicas : Returned(r) =>
        LET lens == shard[r].batch["mel_lengths"]
            T == IF config["use_fixed_shapes"] = FALSE
                 THEN CHOOSE m \in Range(lens) : \A x \in Range(lens) : m >= x
                 ELSE config["max_mel_length"]
            gts == stop_gts(lens, config)
        IN  /\ Len(gts) = Len(lens)
            /\ \A i \in 1..Len(lens) :
                  /\ Len(gts[i]) = T
                  /\ \A t \in 0..(T - 1) :
                        /\ gts[i][t + 1] \in {0, 1}
                        /\ gts[i][t + 1] = 1 <=> t >= lens[i]

C2_Witness ==
    \E r \in Replicas :
        /\ Returned(r)
        /\ shard[r].batch["mel_lengths"] = <<3, 5>>
        /\ stop_gts(shard[r].batch["mel_lengths"], config)
              = << <<0, 0, 0, 1, 1>>, <<0, 0, 0, 0, 0>> >>

AllMasked(g, i) == \A r \in 1..Len(g[i]) : \A c \in 1..Len(g[i][r]) : g[i][r][c] = -1

\* C3: for an example whose prior is the sentinel -1 everywhere, the returned
\* guided_attention_loss and the total loss of that example are finite.
C3_AllMaskedLossIsFinite ==
    \A r \in Replicas : Returned(r) =>
        \A i \in 1..BatchSize(r) :
            AllMasked(shard[r].batch["g_attentions"], i) =>
                /\ IsFinite(result[r].dict_metrics_losses["guided_attention_loss"][i])
                /\ IsFinite(result[r].per_example_losses[i])

ValidPositions(g, i) ==
    {rc \in (1..Len(g[i])) \X (1..Len(g[i][1])) : g[i][rc[1]][rc[2]] # -1}

\* C4: for an example with at least one position where the prior is not -1,
\* guided_attention_loss is the sum of |alignment * prior| over exactly those
\* positions, divided by their number.
C4_GuidedAttentionLoss ==
    \A r \in Replicas :
        (Returned(r) /\ Shape3(shard[r].outputs[4]) = Shape3(shard[r].batch["g_attentions"])) =>
            LET g == shard[r].batch["g_attentions"]
                a == shard[r].outputs[4]
            IN  \A i \in 1..BatchSize(r) :
                    LET V == ValidPositions(g, i)
                    IN  V # {} =>
                          result[r].dict_metrics_losses["guided_attention_loss"][i]
                            = TrueDiv(SumOver(V, [rc \in V |->
                                          Abs(a[i][rc[1]][rc[2]] * g[i][rc[1]][rc[2]])]),
                                      Cardinality(V))

C4_Witness ==
    \E r \in Replicas :
        /\ Returned(r)
        /\ Shape3(shard[r].outputs[4]) = Shape3(shard[r].batch["g_attentions"])
        /\ \E i \in 1..BatchSize(r) :
              LET V == ValidPositions(shard[r].batch["g_attentions"], i)
              IN  /\ Cardinality(V) >= 2
                  /\ Cardinality(V) < Len(shard[r].batch["g_attentions"][i])
                                        * Len(shard[r].batch["g_attentions"][i][1])
                  /\ result[r].dict_metrics_losses["guided_attention_loss"][i].n > 0

\* C5: no failure inside generate_and_save_intermediate_result reaches the
\* caller.
C5_RenderingFailureIsCaught ==
    lastCall = "generate_and_save_intermediate_result" => raised = "None"

\* C6: a call on a batch that lacks a required key ends in a
\* ConfigurationError and returns no losses.
C6_MissingKeyIsConfigurationError ==
    \A r \in Replicas :
        (result[r].status # "pending" /\ ~(RequiredKeys \subseteq DOMAIN shard[r].batch)) =>
            /\ result[r].status = "raised"
            /\ result[r].exc = "ConfigurationError"

ShapesDisagree(in) ==
    /\ RequiredKeys \subseteq DOMAIN in.batch
    /\ \/ Shape3(in.outputs[1]) # Shape3(in.batch["mel_gts"])
       \/ Shape3(in.outputs[2]) # Shape3(in.batch["mel_gts"])
       \/ Shape2(in.outputs[3])
            # <<Len(in.batch["mel_lengths"]), PaddedLen(in.batch["mel_lengths"], in.fixed)>>
       \/ Shape3(in.outputs[4]) # Shape3(in.batch["g_attentions"])

\* C7: a call whose prediction and target shapes disagree ends in a
\* ShapeMismatchError, never in a returned loss.
C7_ShapeMismatchIsRaised ==
    \A r \in Replicas :
        (result[r].status # "pending" /\ ShapesDisagree(shard[r])) =>
            /\ result[r].status = "raised"
            /\ result[r].exc = "ShapeMismatchError"

\* C8: a compute_per_example_losses call changes nothing of the trainer
\* (steps, epochs, config, the train and eval accumulators), the batch or the
\* outputs, and whatever calls ran before it or on other replicas, it gives
\* the replica the losses of that replica's own shard.
C8_ComputeIsSideEffectFree ==
    [][lastCall' = "compute_per_example_losses" =>
          /\ UNCHANGED <<steps, epochs, config, train_metrics, eval_metrics, shard,
                         already_apply_input_signature, dirs, files>>
          /\ \A r \in Replicas :
                \/ result'[r] = result[r]
                \/ result'[r] = compute_per_example_losses(shard[r].batch,
                                                           shard[r].outputs,
                                                           config)]_vars

C8_Witness ==
    /\ lastCall = "compute_per_example_losses"
    /\ \A r \in 1..NumReplicas : r \in Replicas /\ Returned(r)
    /\ ncalls >= 1
    /\ eval_metrics["mel_loss_after"].count >= 1

\* C9: after a completed generate_and_save_intermediate_result at step count s
\* the directory outdir/predictions/{s}steps exists and holds {utt_id}.png and
\* {idx}_alignment.png for every example of the first shard (of the whole
\* batch when it is not sharded); the call saved these files and no others.
C9_RenderedFiles ==
    (lastCall = "generate_and_save_intermediate_result" /\ raised = "None") =>
        LET d == [outdir |-> "outdir", sub |-> "predictions", steps |-> steps]
            ids == shard[1].batch["utt_ids"]
            expected ==
                {[dir |-> d, stem |-> ids[idx + 1], suffix |-> ".png"] :
                    idx \in 0..(Len(ids) - 1)}
                \cup
                {[dir |-> d, stem |-> idx, suffix |-> "_alignment.png"] :
                    idx \in 0..(Len(ids) - 1)}
        IN  /\ d \in dirs
            /\ expected \subseteq files
            /\ written = expected
            /\ \A f \in written : f.dir = d

C9_Witness ==
    /\ lastCall = "generate_and_save_intermediate_result"
    /\ raised = "None"
    /\ distributed
    /\ Len(shard[1].batch["utt_ids"]) = 2
    /\ steps > steps0
    /\ Cardinality(dirs) >= 2

\* C10: the three step functions are wrapped once, by the first _train_step,
\* and the flag stays True from then on; every call runs one_step_forward,
\* then adds 1 to steps, then runs the finish check, so that after n calls
\* steps is its initial value plus n.
C10_TrainStep ==
    /\ steps = steps0 + ncalls
    /\ already_apply_input_signature = (ncalls >= 1)
    /\ \A f \in {"one_step_forward", "one_step_evaluate", "one_step_predict"} :
          wrapped[f] = IF ncalls >= 1 THEN 1 ELSE 0
    /\ ncalls >= 1 => (forward_saw = steps - 1 /\ check_saw = steps)

C10_Witness ==
    /\ ncalls >= 2
    /\ steps0 = 1
    /\ lastCall = "_train_step"

====
